---- MODULE Spec2Model ----
(***************************************************************************)
(* Model of src/book_translation.py: BookTranslator (download_book,        *)
(* clean_text, split_text, translate_chunk, translate_book,                *)
(* save_translation) and main().                                           *)
(*                                                                         *)
(* Texts are sequences of one-character strings.  The two marker phrases   *)
(* the normalizer looks for are abbreviated to one upper-case symbol each  *)
(* ("S", "E") so that bounded texts can hold marker lines; "s" and "e" are *)
(* their lower-case forms.  Substring search, upper(), strip(), split()    *)
(* and join() are computed on the characters as Python computes them.      *)
(***************************************************************************)
EXTENDS Integers, Sequences, FiniteSets, TLC

\* ---------------------------------------------------------------- bounds
MaxTextLen == 5
MaxBookLen == 6
MaxChunkSize == 3
MaxBodyLen == 5

\* ------------------------------------------------------------ characters
NL == "\n"
SP == " "

TextChars == {"a", "s", "S", "E", "*", SP, NL}
BookChars == {"a", "S", "e", NL}

StringsOver(chars, n) == UNION {[1..k -> chars] : k \in 0..n}

\* str.upper() on one character
UpperChar(c) ==
  CASE c = "a" -> "A"
    [] c = "s" -> "S"
    [] c = "e" -> "E"
    [] OTHER -> c

\* str.upper()
Upper(s) == [k \in 1..Len(s) |-> UpperChar(s[k])]

\* the characters str.strip() removes
IsSpace(c) == c \in {SP, NL}

RECURSIVE LStrip(_)
LStrip(s) == IF s = <<>> THEN s
             ELSE IF IsSpace(s[1]) THEN LStrip(Tail(s)) ELSE s

RECURSIVE RStrip(_)
RStrip(s) == IF s = <<>> THEN s
             ELSE IF IsSpace(s[Len(s)]) THEN RStrip(SubSeq(s, 1, Len(s) - 1)) ELSE s

\* str.strip()
Strip(s) == RStrip(LStrip(s))

\* `sub in s`
Contains(sub, s) ==
  \E k \in 0..(Len(s) - Len(sub)) : SubSeq(s, k + 1, k + Len(sub)) = sub

\* s.startswith(p)
StartsWith(s, p) == Len(s) >= Len(p) /\ SubSeq(s, 1, Len(p)) = p

\* text.split('\n'): always at least one element
RECURSIVE SplitFrom(_, _, _, _)
SplitFrom(text, k, cur, acc) ==
  IF k > Len(text) THEN Append(acc, cur)
  ELSE IF text[k] = NL THEN SplitFrom(text, k + 1, <<>>, Append(acc, cur))
  ELSE SplitFrom(text, k + 1, Append(cur, text[k]), acc)

SplitLines(text) == SplitFrom(text, 1, <<>>, <<>>)

\* sep.join(parts)
RECURSIVE Join(_, _)
Join(parts, sep) ==
  IF parts = <<>> THEN <<>>
  ELSE IF Len(parts) = 1 THEN parts[1]
  ELSE parts[1] \o sep \o Join(Tail(parts), sep)

\* ------------------------------------------------------------ clean_text
START_MARKER == <<"S">>
END_MARKER == <<"E">>
STAR_PREFIX == <<"*", "*", "*">>

\* line 142
HasStartMarker(line) == Contains(START_MARKER, Upper(line))

\* line 147
HasEndMarker(line) == Contains(END_MARKER, Upper(line))

KeepLineNoPrefixTest(line) == line # <<>>

\* line 151
KeepLine(line) == line # <<>> /\ ~StartsWith(line, STAR_PREFIX)

\* the for loop of lines 137-152, from line index k on
RECURSIVE CleanLoop(_, _, _, _)
CleanLoop(lines, k, start_found, cleaned_lines) ==
  IF k > Len(lines) THEN cleaned_lines
  ELSE LET line == Strip(lines[k]) IN
       IF ~start_found
       THEN CleanLoop(lines, k + 1, HasStartMarker(line), cleaned_lines)
       ELSE IF HasEndMarker(line) THEN cleaned_lines
       ELSE IF KeepLine(line)
            THEN CleanLoop(lines, k + 1, TRUE, Append(cleaned_lines, line))
            ELSE CleanLoop(lines, k + 1, TRUE, cleaned_lines)

clean_text(text) == Join(CleanLoop(SplitLines(text), 1, FALSE, <<>>), <<NL>>)

\* ------------------------------------------------------------ split_text
ExceedsNoSeparator(current_chunk, paragraph, max) ==
  Len(current_chunk) + Len(paragraph) > max /\ current_chunk # <<>>

ExceedsAtBound(current_chunk, paragraph, max) ==
  Len(current_chunk) + Len(paragraph) + 1 >= max /\ current_chunk # <<>>

\* line 176
Exceeds(current_chunk, paragraph, max) ==
  Len(current_chunk) + Len(paragraph) + 1 > max /\ current_chunk # <<>>

AppendParagraphNoBreak(current_chunk, paragraph) ==
  IF current_chunk # <<>> THEN current_chunk \o paragraph ELSE paragraph

\* lines 180-183
AppendParagraph(current_chunk, paragraph) ==
  IF current_chunk # <<>> THEN current_chunk \o <<NL>> \o paragraph ELSE paragraph

\* the for loop of lines 174-183 and the final append of lines 186-187
RECURSIVE SplitLoop(_, _, _, _, _)
SplitLoop(paragraphs, k, current_chunk, chunks_, max) ==
  IF k > Len(paragraphs)
  THEN IF current_chunk # <<>> THEN Append(chunks_, Strip(current_chunk)) ELSE chunks_
  ELSE LET paragraph == paragraphs[k] IN
       IF Exceeds(current_chunk, paragraph, max)
       THEN SplitLoop(paragraphs, k + 1, paragraph,
                      Append(chunks_, Strip(current_chunk)), max)
       ELSE SplitLoop(paragraphs, k + 1, AppendParagraph(current_chunk, paragraph),
                      chunks_, max)

split_text(text, max) == SplitLoop(SplitLines(text), 1, <<>>, <<>>, max)

\* ----------------------------------------------------------------- state
VARIABLES
  pc,                \* position of the run
  entry,             \* "main": the command line; "api": BookTranslator used directly
  api_key,           \* the --api-key argument / constructor argument
  language,          \* the --language argument / constructor argument
  target_language,   \* self.target_language
  book_content,      \* the text download_book returned
  cleaned_content,   \* the text clean_text returned
  max_chunk_size,    \* the max_chunk_size split_text ran with
  chunks,            \* the list split_text returned
  i,                 \* the loop index of translate_book (0-based)
  translated_chunks, \* the list translate_book collects
  outcomes,          \* what the translation service did, call by call
  callLog,           \* the (chunk_num, text_chunk) of every translate_chunk call
  translated_book,   \* the text translate_book returned
  fetch,             \* "none", "ok" or "failed": the HTTP GET of download_book
  sink,              \* what save_translation wrote to the output file
  error              \* why the run ended, "none" while it has not failed

vars == <<pc, entry, api_key, language, target_language, book_content,
          cleaned_content, max_chunk_size, chunks, i, translated_chunks, outcomes,
          callLog, translated_book, fetch, sink, error>>

runVars == <<entry, api_key, language, target_language, i, translated_chunks,
             outcomes, callLog, translated_book, fetch, sink, error>>

\* ------------------------------------------- the text functions on their own
InitText ==
  /\ pc = "text"
  /\ book_content \in StringsOver(TextChars, MaxTextLen)
  /\ entry = "api" /\ api_key = "" /\ language = "" /\ target_language = ""
  /\ cleaned_content = <<>> /\ max_chunk_size = 0 /\ chunks = <<>>
  /\ i = 0 /\ translated_chunks = <<>> /\ outcomes = <<>> /\ callLog = <<>>
  /\ translated_book = <<>> /\ fetch = "none" /\ sink = <<>> /\ error = "none"

\* clean_text applied to any text
TextClean ==
  /\ pc = "text"
  /\ cleaned_content' = clean_text(book_content)
  /\ pc' = "cleaned"
  /\ UNCHANGED <<book_content, max_chunk_size, chunks, runVars>>

\* split_text applied to any text
TextSplitAny ==
  /\ pc = "text"
  /\ \E m \in 1..MaxChunkSize :
       /\ max_chunk_size' = m
       /\ chunks' = split_text(book_content, m)
  /\ pc' = "split_any"
  /\ UNCHANGED <<book_content, cleaned_content, runVars>>

\* split_text applied to a text clean_text returned
TextSplitClean ==
  /\ pc = "cleaned"
  /\ \E m \in 1..MaxChunkSize :
       /\ max_chunk_size' = m
       /\ chunks' = split_text(cleaned_content, m)
  /\ pc' = "split_clean"
  /\ UNCHANGED <<book_content, cleaned_content, runVars>>

NextText == TextClean \/ TextSplitAny \/ TextSplitClean

SpecText == InitText /\ [][NextText]_vars

\* ------------------------- clean_text, then split_text, on a marked document
BodyChars == {"a", SP, NL}

\* a start marker line followed by any body
InitDoc ==
  /\ pc = "text"
  /\ \E body \in StringsOver(BodyChars, MaxBodyLen) :
       book_content = START_MARKER \o <<NL>> \o body
  /\ entry = "api" /\ api_key = "" /\ language = "" /\ target_language = ""
  /\ cleaned_content = <<>> /\ max_chunk_size = 0 /\ chunks = <<>>
  /\ i = 0 /\ translated_chunks = <<>> /\ outcomes = <<>> /\ callLog = <<>>
  /\ translated_book = <<>> /\ fetch = "none" /\ sink = <<>> /\ error = "none"

NextDoc == TextClean \/ TextSplitClean

SpecDoc == InitDoc /\ [][NextDoc]_vars

\* ------------------------------------------------------------- the run
\* keys of SUPPORTED_LANGUAGES
SUPPORTED_LANGUAGES == {"indonesian", "filipino", "tamil", "thai", "vietnamese"}

LanguageInputs == {"thai", "THAI", "klingon"}
ApiKeyInputs == {"", "key"}

\* str.lower() on the language inputs
Lower(l) == IF l = "THAI" THEN "thai" ELSE l

\* a value that is not a text: Python's None
None == <<"<None>">>

\* what requests.get / raise_for_status can do
FetchResponses ==
  {[kind |-> "ok", body |-> t] : t \in StringsOver(BookChars, MaxBookLen)}
    \cup {[kind |-> k, body |-> <<>>] : k \in {"network_error", "bad_status"}}

DownloadSwallowsError(resp) ==
  [raised |-> FALSE, value |-> resp.body]

\* download_book: RequestException is logged and raised again
download_book(resp) ==
  IF resp.kind = "ok" THEN [raised |-> FALSE, value |-> resp.body]
  ELSE [raised |-> TRUE, value |-> None]

InitRejectsMissingKeyOnly(key, lang) == key = ""

\* the two raise ValueError of __init__
InitRejects(key, lang) == key = "" \/ Lower(lang) \notin SUPPORTED_LANGUAGES

\* the translated text the service answers with: "[TH]" + input, or nothing
TAG == <<"T">>

\* what client.chat.completions.create and the reading of its response can do
ServiceOutcomes(text_chunk) ==
  {[kind |-> "ok", text |-> TAG \o text_chunk], [kind |-> "ok", text |-> <<>>]}
    \cup {[kind |-> k, text |-> None] :
            k \in {"timeout", "rejected", "malformed", "no_content"}}

\* the outcomes that raise inside the try block: a timeout, a rejected
\* request, a response without choices
Raises(outcome) == outcome.kind \in {"timeout", "rejected", "malformed"}

CaughtApiErrorsOnly(outcome) == outcome.kind \in {"timeout", "rejected"}

\* except Exception
Caught(outcome) == outcome.kind \in {"timeout", "rejected", "malformed"}

\* translate_chunk
translate_chunk(text_chunk, lang, outcome) ==
  IF lang \notin SUPPORTED_LANGUAGES THEN [raised |-> TRUE, value |-> None]
  ELSE IF Raises(outcome)
       THEN IF Caught(outcome) THEN [raised |-> FALSE, value |-> text_chunk]
            ELSE [raised |-> TRUE, value |-> None]
       ELSE IF outcome.kind = "ok" THEN [raised |-> FALSE, value |-> outcome.text]
       ELSE [raised |-> FALSE, value |-> None]

\* the chunk number translate_book passes, line 274
ChunkNum(index) == index + 1

RetryOnFailure(index, outcome) ==
  IF Raises(outcome) THEN index ELSE index + 1

\* the for loop over range(len(chunks)), line 272: the next index, whatever
\* the call did
LoopAdvance(index, outcome) == index + 1

SINGLE_BREAK == <<NL>>

\* the separator of line 281
BLANK_LINE == <<NL, NL>>

\* str.join raises TypeError on an item that is not a str
JoinRaises(parts) == \E k \in 1..Len(parts) : parts[k] = None

\* the run ends with an exception: main prints it and exits 1
Fail(err) ==
  /\ error' = err
  /\ pc' = IF entry = "main" THEN "exit1" ELSE "raised"

Init ==
  /\ pc = "start"
  /\ entry \in {"main", "api"}
  /\ api_key \in ApiKeyInputs
  /\ language \in LanguageInputs
  /\ target_language = ""
  /\ book_content = <<>> /\ cleaned_content = <<>>
  /\ max_chunk_size = 0 /\ chunks = <<>>
  /\ i = 0 /\ translated_chunks = <<>> /\ outcomes = <<>> /\ callLog = <<>>
  /\ translated_book = <<>> /\ fetch = "none" /\ sink = <<>> /\ error = "none"

\* main, lines 330-354: argparse rejects a --language outside choices, exit 2
ParseArgs ==
  /\ pc = "start" /\ entry = "main"
  /\ IF language \in SUPPORTED_LANGUAGES
     THEN pc' = "args" /\ UNCHANGED error
     ELSE pc' = "exit2" /\ error' = "usage"
  /\ UNCHANGED <<entry, api_key, language, target_language, book_content,
                 cleaned_content, max_chunk_size, chunks, i, translated_chunks,
                 outcomes, callLog, translated_book, fetch, sink>>

\* main, lines 356-360
CheckApiKey ==
  /\ pc = "args"
  /\ IF api_key = ""
     THEN pc' = "exit1" /\ error' = "config"
     ELSE pc' = "construct" /\ UNCHANGED error
  /\ UNCHANGED <<entry, api_key, language, target_language, book_content,
                 cleaned_content, max_chunk_size, chunks, i, translated_chunks,
                 outcomes, callLog, translated_book, fetch, sink>>

\* BookTranslator.__init__
Construct ==
  /\ pc = "construct" \/ (pc = "start" /\ entry = "api")
  /\ IF InitRejects(api_key, language)
     THEN Fail("config") /\ UNCHANGED target_language
     ELSE /\ target_language' = Lower(language)
          /\ pc' = "download"
          /\ UNCHANGED error
  /\ UNCHANGED <<entry, api_key, language, book_content, cleaned_content,
                 max_chunk_size, chunks, i, translated_chunks, outcomes, callLog,
                 translated_book, fetch, sink>>

\* translate_book, line 261
Download ==
  /\ pc = "download"
  /\ \E resp \in FetchResponses :
       LET r == download_book(resp) IN
       /\ fetch' = IF resp.kind = "ok" THEN "ok" ELSE "failed"
       /\ IF r.raised
          THEN Fail("fetch") /\ UNCHANGED book_content
          ELSE /\ book_content' = r.value
               /\ pc' = "clean"
               /\ UNCHANGED error
  /\ UNCHANGED <<entry, api_key, language, target_language, cleaned_content,
                 max_chunk_size, chunks, i, translated_chunks, outcomes, callLog,
                 translated_book, sink>>

\* translate_book, line 264
Clean ==
  /\ pc = "clean"
  /\ cleaned_content' = clean_text(book_content)
  /\ pc' = "split"
  /\ UNCHANGED <<book_content, max_chunk_size, chunks, runVars>>

\* translate_book, lines 267-270; the default max_chunk_size of 3000 is
\* scaled to the sizes 1..MaxChunkSize
Split ==
  /\ pc = "split"
  /\ \E m \in 1..MaxChunkSize :
       /\ max_chunk_size' = m
       /\ chunks' = split_text(cleaned_content, m)
  /\ pc' = "translate"
  /\ UNCHANGED <<book_content, cleaned_content, runVars>>

\* one iteration of the loop of lines 272-278
TranslateChunk ==
  /\ pc = "translate"
  /\ i < Len(chunks)
  /\ \E outcome \in ServiceOutcomes(chunks[i + 1]) :
       LET chunk == chunks[i + 1]
           r == translate_chunk(chunk, target_language, outcome)
       IN  /\ callLog' = Append(callLog, [num |-> ChunkNum(i), text |-> chunk])
           /\ outcomes' = Append(outcomes, outcome)
           /\ IF r.raised
              THEN Fail("translate") /\ UNCHANGED <<i, translated_chunks>>
              ELSE /\ translated_chunks' = Append(translated_chunks, r.value)
                   /\ i' = LoopAdvance(i, outcome)
                   /\ UNCHANGED <<pc, error>>
  /\ UNCHANGED <<entry, api_key, language, target_language, book_content,
                 cleaned_content, max_chunk_size, chunks, translated_book, fetch,
                 sink>>

\* translate_book, lines 281-284
Assemble ==
  /\ pc = "translate"
  /\ i = Len(chunks)
  /\ IF JoinRaises(translated_chunks)
     THEN Fail("assemble") /\ UNCHANGED translated_book
     ELSE /\ translated_book' = Join(translated_chunks, BLANK_LINE)
          /\ pc' = IF entry = "main" THEN "save" ELSE "returned"
          /\ UNCHANGED error
  /\ UNCHANGED <<entry, api_key, language, target_language, book_content,
                 cleaned_content, max_chunk_size, chunks, i, translated_chunks,
                 outcomes, callLog, fetch, sink>>

\* main, line 376: save_translation writes the title line, the rule and the
\* text; an IOError at open or at any write is raised again
Save ==
  /\ pc = "save"
  /\ LET writes == <<<<"title", target_language>>, <<"rule">>, translated_book>> IN
     \E done \in 0..3 :
       /\ sink' = SubSeq(writes, 1, done)
       /\ IF done = 3
          THEN pc' = "exit0" /\ UNCHANGED error
          ELSE pc' = "exit1" /\ error' = "sink"
  /\ UNCHANGED <<entry, api_key, language, target_language, book_content,
                 cleaned_content, max_chunk_size, chunks, i, translated_chunks,
                 outcomes, callLog, translated_book, fetch>>

Next ==
  \/ ParseArgs \/ CheckApiKey \/ Construct \/ Download \/ Clean \/ Split
  \/ TranslateChunk \/ Assemble \/ Save

Spec == Init /\ [][Next]_vars

\* ========================================================= properties, Spec

FailureKinds == {"timeout", "rejected", "malformed"}

\* C3: a chunk whose service call failed is stored as its original text and
\* translate_chunk raises nothing; a chunk whose call succeeded is stored as
\* the text the service returned.
C3_FallbackOnFailure ==
  /\ error # "translate"
  /\ Len(translated_chunks) = Len(outcomes)
  /\ \A k \in 1..Len(outcomes) :
       /\ outcomes[k].kind \in FailureKinds => translated_chunks[k] = chunks[k]
       /\ outcomes[k].kind = "ok" => translated_chunks[k] = outcomes[k].text

\* a run in which one call failed and another returned a translation
C3_Witness ==
  /\ pc = "returned"
  /\ \E k \in 1..Len(outcomes) :
       outcomes[k].kind = "malformed" /\ translated_chunks[k] = chunks[k]
  /\ \E k \in 1..Len(outcomes) :
       outcomes[k].kind = "ok" /\ translated_chunks[k] = TAG \o chunks[k]

Ended == pc \in {"exit0", "exit1", "exit2", "raised", "returned"}

\* C4: once the document is loaded, the run ends with translate_book having
\* returned a document of one result per chunk, whatever the service did.
C4_LoadedRunAssembles ==
  (fetch = "ok" /\ Ended) =>
    /\ error \in {"none", "sink"}
    /\ Len(translated_chunks) = Len(chunks)

\* translate_book has returned
Assembled == pc \in {"save", "returned", "exit0"} \/ (pc = "exit1" /\ error = "sink")

\* where result k starts in the document, counted from 0
RECURSIVE ResultOffset(_, _)
ResultOffset(results, k) ==
  IF k = 1 THEN 0 ELSE ResultOffset(results, k - 1) + Len(results[k - 1]) + 2

\* C5: the document translate_book returns is the results in chunk order with
\* exactly "\n\n" between consecutive results and nothing around them.
C5_BlankLineBetweenResults ==
  Assembled =>
    LET r == translated_chunks
        n == Len(r)
    IN  /\ n = Len(chunks)
        /\ Len(translated_book) = IF n = 0 THEN 0 ELSE ResultOffset(r, n) + Len(r[n])
        /\ \A k \in 1..n :
             SubSeq(translated_book, ResultOffset(r, k) + 1,
                    ResultOffset(r, k) + Len(r[k])) = r[k]
        /\ \A k \in 1..(n - 1) :
             SubSeq(translated_book, ResultOffset(r, k) + Len(r[k]) + 1,
                    ResultOffset(r, k) + Len(r[k]) + 2) = <<"\n", "\n">>

\* chunks "a", "a" and a service that answers "T" + input
C5_Witness ==
  /\ pc = "returned"
  /\ chunks = <<<<"a">>, <<"a">>>>
  /\ translated_book = <<"T", "a", "\n", "\n", "T", "a">>

\* C8: after a failed fetch the run has ended with that error, no
\* translate_chunk call was made and nothing was written to the output file.
C8_FetchFailureIsTerminal ==
  fetch = "failed" =>
    /\ pc \in {"exit1", "raised"}
    /\ error = "fetch"
    /\ callLog = <<>>
    /\ translated_chunks = <<>>
    /\ sink = <<>>

\* the command line run ended by a failed fetch
C8_Witness ==
  /\ fetch = "failed"
  /\ entry = "main"
  /\ pc = "exit1"

BadConfig == api_key = "" \/ Lower(language) \notin SUPPORTED_LANGUAGES

\* C9: a run with a missing API key or an unsupported language (compared in
\* lower case) ends in a configuration error, and a run that ended in a
\* configuration error has attempted neither the fetch nor a translation call.
C9_ConfigErrorBeforeNetwork ==
  /\ error \in {"usage", "config"} =>
       /\ fetch = "none" /\ callLog = <<>>
       /\ pc \in {"exit1", "exit2", "raised"}
  /\ BadConfig =>
       /\ fetch = "none" /\ callLog = <<>>
       /\ Ended => error \in {"usage", "config"}

\* the constructor raised for the language "klingon"
C9_Witness ==
  /\ entry = "api"
  /\ api_key # ""
  /\ language = "klingon"
  /\ pc = "raised"
  /\ error = "config"

\* C10: translate_chunk is called once per chunk, for chunk 1, 2, ... in
\* order, and the loop has moved on by one after every call, failed or not.
C10_OneCallPerChunkInOrder ==
  /\ Len(callLog) = i
  /\ Len(translated_chunks) = i
  /\ \A k \in 1..Len(callLog) : callLog[k] = [num |-> k, text |-> chunks[k]]
  /\ (Assembled \/ error = "assemble") => Len(callLog) = Len(chunks)

\* a run of two chunks whose first call failed and whose second succeeded
C10_Witness ==
  /\ pc = "returned"
  /\ Len(callLog) = 2
  /\ outcomes[1].kind = "timeout"
  /\ outcomes[2].kind = "ok"

\* ===================================================== properties, SpecText

\* the lines of every chunk, in chunk order
RECURSIVE ChunkLines(_)
ChunkLines(cs) ==
  IF cs = <<>> THEN <<>> ELSE SplitLines(cs[1]) \o ChunkLines(Tail(cs))

\* the text split_text was given
SplitInput == IF pc = "split_any" THEN book_content ELSE cleaned_content

\* C1: every chunk split_text returns is at most max_chunk_size long, unless
\* it is one source line (trimmed) that is itself longer than max_chunk_size.
C1_ChunkWithinBound ==
  pc \in {"split_any", "split_clean"} =>
    LET lines == SplitLines(SplitInput) IN
    \A k \in 1..Len(chunks) :
      \/ Len(chunks[k]) <= max_chunk_size
      \/ \E j \in 1..Len(lines) :
           /\ Len(lines[j]) > max_chunk_size
           /\ chunks[k] = Strip(lines[j])
           /\ ~Contains(<<NL>>, chunks[k])

\* an oversized one-line chunk next to a chunk that fills the bound exactly
C1_Witness ==
  /\ pc = "split_any"
  /\ \E k \in 1..Len(chunks) : Len(chunks[k]) > max_chunk_size
  /\ \E k \in 1..Len(chunks) : Len(chunks[k]) = max_chunk_size

\* C2: for a text clean_text returned, the chunks joined with one line break
\* are that text again, and the chunks' lines are its lines, in order.
C2_JoinReproducesClean ==
  pc = "split_clean" =>
    /\ Join(chunks, <<NL>>) = cleaned_content
    /\ cleaned_content = <<>> => chunks = <<>>
    /\ cleaned_content # <<>> => ChunkLines(chunks) = SplitLines(cleaned_content)

\* a clean document of several lines cut into several chunks
C2_Witness ==
  /\ pc = "split_clean"
  /\ Len(chunks) >= 2
  /\ Len(SplitLines(cleaned_content)) >= 2

\* C6: clean_text returns the trimmed, non-empty lines without the '***'
\* prefix that lie strictly between the first start marker line and the first
\* later end marker line, in order, joined by line breaks; the empty text when
\* there is no start marker line.
C6_CleanIsMarkedSpan ==
  pc \in {"cleaned", "split_clean"} =>
    LET lines == SplitLines(book_content)
        T(j) == Strip(lines[j])
        starts == {j \in 1..Len(lines) : Contains(<<"S">>, Upper(lines[j]))}
    IN  IF starts = {} THEN cleaned_content = <<>>
        ELSE LET s == CHOOSE j \in starts : \A o \in starts : j <= o
                 ends == {j \in (s + 1)..Len(lines) : Contains(<<"E">>, Upper(lines[j]))}
                 e == IF ends = {} THEN Len(lines) + 1
                      ELSE CHOOSE j \in ends : \A o \in ends : j <= o
                 wanted(j) == /\ s < j /\ j < e
                              /\ T(j) # <<>>
                              /\ ~(Len(T(j)) >= 3 /\ SubSeq(T(j), 1, 3) = <<"*", "*", "*">>)
                 picked == SelectSeq([j \in 1..Len(lines) |-> j], wanted)
             IN  cleaned_content = Join([n \in 1..Len(picked) |-> T(picked[n])], <<NL>>)

\* a marker line, a kept line that needed trimming or a dropped line, and an
\* end marker line after it
C6_Witness ==
  /\ pc = "cleaned"
  /\ cleaned_content # <<>>
  /\ cleaned_content # book_content
  /\ LET lines == SplitLines(book_content) IN
     /\ Len(lines) >= 3
     /\ HasEndMarker(lines[Len(lines)])

\* C7: no line of the text clean_text returns contains the start marker or
\* the end marker, in any letter case.
C7_NoMarkerLines ==
  pc = "cleaned" =>
    LET out == SplitLines(cleaned_content) IN
    \A j \in 1..Len(out) :
      /\ ~Contains(START_MARKER, Upper(out[j]))
      /\ ~Contains(END_MARKER, Upper(out[j]))

\* ====================================================== properties, SpecDoc

\* C11: split_text closes a chunk only when it must: for consecutive chunks
\* of a text clean_text returned, the earlier chunk, a line break and the
\* first line of the later chunk together are longer than max_chunk_size.
C11_ChunkClosedOnlyWhenForced ==
  pc = "split_clean" =>
    \A k \in 1..(Len(chunks) - 1) :
      Len(chunks[k]) + 1 + Len(SplitLines(chunks[k + 1])[1]) > max_chunk_size

\* three lines "a" with max_chunk_size 3: the first two share a chunk, the
\* third starts the next
C11_Witness ==
  /\ pc = "split_clean"
  /\ max_chunk_size = 3
  /\ cleaned_content = <<"a", "\n", "a", "\n", "a">>
  /\ chunks = <<<<"a", "\n", "a">>, <<"a">>>>

====
